---- MODULE Spec2Model ----
(***************************************************************************)
(* A model of emailpie/utils.py: the RFC 2822 addr-spec matcher            *)
(* (VALID_ADDRESS_REGEXP), the MX lookup (mxlookup) and the check          *)
(* orchestrator (EmailChecker.validate) with its three checks.             *)
(*                                                                         *)
(* Strings are sequences of one-character strings.  The pattern is kept   *)
(* as a syntax tree assembled token by token as in the source and matched *)
(* by a general matcher, so that the language is computed, not assumed.   *)
(***************************************************************************)
EXTENDS Integers, Sequences, FiniteSets, Bags, TLC

(***************************************************************************)
(* Bounds of the model.                                                    *)
(***************************************************************************)
\* longest address string a Subject is constructed with
MaxLen == 3
\* how many times validate is called on one Subject
MaxCalls == 2
MaxAddrLen == 4

(***************************************************************************)
(* Characters.  Chars are the characters the pattern's classes are taken  *)
(* over; Code is the character code its ranges (\x01-\x08, ...) refer to. *)
(***************************************************************************)
Chars == {"a", "@", ".", "\"", "\n", "\r", " ", "\t", "(", ")", "[", "]", "\\"}
\* the characters the addresses of the model are written with
AddrChars == {"a", "@", ".", "\n"}

Code(c) ==
    CASE c = "a"  -> 97
      [] c = "@"  -> 64
      [] c = "."  -> 46
      [] c = "\"" -> 34
      [] c = "\n" -> 10
      [] c = "\r" -> 13
      [] c = " "  -> 32
      [] c = "\t" -> 9
      [] c = "("  -> 40
      [] c = ")"  -> 41
      [] c = "["  -> 91
      [] c = "]"  -> 93
      [] c = "\\" -> 92

Strings(n) == UNION {[1..k -> AddrChars] : k \in 0..n}

(***************************************************************************)
(* Regular expressions as trees, and the matcher.                          *)
(***************************************************************************)
Eps       == [t |-> "eps"]
Cls(S)    == [t |-> "cls", set |-> S]
Cat(a, b) == [t |-> "cat", a |-> a, b |-> b]
Alt(a, b) == [t |-> "alt", a |-> a, b |-> b]
Star(a)   == [t |-> "star", a |-> a]
Plus(a)   == Cat(a, Star(a))
Opt(a)    == Alt(a, Eps)

RECURSIVE Ends(_, _, _)
\* the positions j at which a match of the tree r that starts after position
\* i of s can end (s[i+1..j] is in the language of r)
Ends(r, s, i) ==
    CASE r.t = "eps"  -> {i}
      [] r.t = "cls"  -> IF i < Len(s) /\ s[i + 1] \in r.set THEN {i + 1} ELSE {}
      [] r.t = "cat"  -> UNION {Ends(r.b, s, j) : j \in Ends(r.a, s, i)}
      [] r.t = "alt"  -> Ends(r.a, s, i) \cup Ends(r.b, s, i)
      [] r.t = "star" -> {i} \cup UNION {Ends(r, s, j) : j \in Ends(r.a, s, i) \ {i}}

\* s as a whole is in the language of the tree r
Match(r, s) == Len(s) \in Ends(r, s, 0)

\* the characters of the alphabet whose code lies in the set of codes R
InCodes(R) == {c \in Chars : Code(c) \in R}

(***************************************************************************)
(* The tokens of RFC 2822, as the source assembles them.                   *)
(***************************************************************************)
NO_WS_CTL_CODES == (1..8) \cup {11, 12} \cup (15..31) \cup {127}
\* \w: digits, letters and the underscore
WORD_CODES == (48..57) \cup (65..90) \cup (97..122) \cup {95}
\* ! # $ % & ' * + - / = ? ^ ` { | } ~
ATEXT_PUNCT_CODES == {33, 35, 36, 37, 38, 39, 42, 43, 45, 47, 61, 63, 94, 96, 123, 124, 125, 126}

WSP == Cls(InCodes({32, 9}))
CRLF == Cat(Cls(InCodes({13})), Cls(InCodes({10})))
\* a backslash and any character but a line feed (the dot of the pattern)
QUOTED_PAIR == Cat(Cls(InCodes({92})), Cls({c \in Chars : Code(c) # 10}))
FWS == Cat(Opt(Cat(Star(WSP), CRLF)), Plus(WSP))
CTEXT == Cls(InCodes(NO_WS_CTL_CODES \cup (33..39) \cup (42..91) \cup (93..126)))
CCONTENT == Alt(CTEXT, QUOTED_PAIR)
COMMENT == Cat(Cls(InCodes({40})),
               Cat(Star(Cat(Opt(FWS), CCONTENT)),
                   Cat(Opt(FWS), Cls(InCodes({41})))))
CFWS == Cat(Star(Cat(Opt(FWS), COMMENT)),
            Alt(Cat(Opt(FWS), COMMENT), FWS))
ATEXT == Cls(InCodes(WORD_CODES \cup ATEXT_PUNCT_CODES))
ATOM == Cat(Opt(CFWS), Cat(Plus(ATEXT), Opt(CFWS)))
DOT_ATOM_TEXT == Cat(Plus(ATEXT), Star(Cat(Cls(InCodes({46})), Plus(ATEXT))))
DOT_ATOM == Cat(Opt(CFWS), Cat(DOT_ATOM_TEXT, Opt(CFWS)))
QTEXT == Cls(InCodes(NO_WS_CTL_CODES \cup {33} \cup (35..91) \cup (93..126)))
QCONTENT == Alt(QTEXT, QUOTED_PAIR)
QUOTED_STRING == Cat(Opt(CFWS),
                     Cat(Cls(InCodes({34})),
                         Cat(Star(Cat(Opt(FWS), QCONTENT)),
                             Cat(Opt(FWS),
                                 Cat(Cls(InCodes({34})), Opt(CFWS))))))
LOCAL_PART == Alt(DOT_ATOM, QUOTED_STRING)
DTEXT == Cls(InCodes(NO_WS_CTL_CODES \cup (33..90) \cup (94..126)))
DCONTENT == Alt(DTEXT, QUOTED_PAIR)
DOMAIN_LITERAL == Cat(Opt(CFWS),
                      Cat(Cls(InCodes({91})),
                          Cat(Star(Cat(Opt(FWS), DCONTENT)),
                              Cat(Opt(FWS),
                                  Cat(Cls(InCodes({93})), Opt(CFWS))))))
\* DOMAIN in the source (a reserved word here)
ADDR_DOMAIN == Alt(DOT_ATOM, DOMAIN_LITERAL)
ADDR_SPEC == Cat(LOCAL_PART, Cat(Cls(InCodes({64})), ADDR_DOMAIN))

\* re.match of '^' ADDR_SPEC '$': the match starts at the first character,
\* and '$' matches at the end of the string or just before a final line feed
VALID_ADDRESS_REGEXP(s) ==
    \/ Match(ADDR_SPEC, s)
    \/ /\ Len(s) > 0
       /\ Code(s[Len(s)]) = 10
       /\ Match(ADDR_SPEC, SubSeq(s, 1, Len(s) - 1))

(***************************************************************************)
(* Python values: None and a present value; str.split; truthiness.         *)
(***************************************************************************)
None == [some |-> FALSE]
Some(x) == [some |-> TRUE, v |-> x]

RECURSIVE SplitFrom(_, _, _, _)
\* str.split(sep) continued at position i with the segment cur under way
SplitFrom(s, sep, i, cur) ==
    IF i > Len(s) THEN <<cur>>
    ELSE IF s[i] = sep THEN <<cur>> \o SplitFrom(s, sep, i + 1, <<>>)
    ELSE SplitFrom(s, sep, i + 1, Append(cur, s[i]))

\* s.split(sep): the segments of s between the occurrences of sep
Split(s, sep) == SplitFrom(s, sep, 1, <<>>)

\* EmailChecker.username: self.email.split('@')[0]
username(e) == Split(e, "@")[1]

\* a slip: the last segment, which is the whole address when there is no '@'
domain_LastSegment(e) == Some(Split(e, "@")[Len(Split(e, "@"))])

\* EmailChecker.domain: self.email.split('@')[1], None on IndexError
domain(e) == IF Len(Split(e, "@")) >= 2 THEN Some(Split(e, "@")[2]) ELSE None

\* a slip: only None counts as false, the empty string does not
Truthy_NotNone(o) == o.some

\* the truth value Python gives an optional string or list
Truthy(o) == o.some /\ o.v # <<>>

(***************************************************************************)
(* Errors.                                                                 *)
(***************************************************************************)
InvalidEmailError == [severity |-> 10, message |-> "Invalid email address."]
NoMxError == [severity |-> 7, message |-> "No MX records found for the domain."]

(***************************************************************************)
(* The DNS collaborator: what a DnsRequest(...).req() can come back with.  *)
(* An MX answer's data is a pair (preference, mail exchanger).             *)
(***************************************************************************)
Hosts == <<"mx1", "mx2">>
\* the position of a host name in the ascending order of strings
HostRank(h) == CHOOSE k \in 1..Len(Hosts) : Hosts[k] = h

\* Python's order on (preference, exchanger) tuples
TupleLess(x, y) == x[1] < y[1] \/ (x[1] = y[1] /\ HostRank(x[2]) < HostRank(y[2]))

AnswerLists ==
    { <<>>,
      << [data |-> <<20, "mx1">>], [data |-> <<10, "mx2">>], [data |-> <<10, "mx1">>] >> }

Statuses == {"NOERROR", "NXDOMAIN"}

\* a reply with a header status and answers, or a fault of the transport
\* (a timeout, a socket error): an exception that is not a ServerError
Outcomes ==
    {[kind |-> "reply", status |-> "NOERROR", answers |-> a] : a \in AnswerLists}
    \cup {[kind |-> "reply", status |-> st, answers |-> <<>>] : st \in Statuses \ {"NOERROR"}}
    \cup {[kind |-> "fault"]}

\* Base.DnsRequest(name=name, qtype=qtype, timout=5)
DnsRequest(name, qtype) == [name |-> name, qtype |-> qtype, timout |-> 5]

RECURSIVE Insert(_, _)
\* x put into the ascending list l, after the elements not greater than it
Insert(x, l) ==
    IF l = <<>> THEN <<x>>
    ELSE IF TupleLess(x, Head(l)) THEN <<x>> \o l
    ELSE <<Head(l)>> \o Insert(x, Tail(l))

\* a slip: the list is returned in the order of the answers
Sorted_AsAnswered(l) == l

RECURSIVE Sorted(_)
\* list.sort() of a list of tuples
Sorted(l) == IF l = <<>> THEN <<>> ELSE Insert(l[Len(l)], Sorted(SubSeq(l, 1, Len(l) - 1)))

\* [x['data'] for x in result.answers]
AnswerData(answers) == [k \in 1..Len(answers) |-> answers[k].data]

\* a slip: the retry does not look at Base.defaults['server_rotate']
Retries_IgnoringRotate(reply, rotate) ==
    reply.status = "NOERROR" /\ Len(reply.answers) = 0

\* dnslookup after its first query: does it query once more?
\* (NOERROR, no answers, and Base.defaults['server_rotate'])
Retries(reply, rotate) ==
    reply.status = "NOERROR" /\ Len(reply.answers) = 0 /\ rotate

\* a slip: the status is not looked at
RaisesServerError_Never(reply) == FALSE

\* dnslookup: a status other than NOERROR raises ServerError
RaisesServerError(reply) == reply.status # "NOERROR"

\* _mxlookup on the final reply: the answers' data, sorted
MxResult(reply) == Sorted(AnswerData(reply.answers))

(***************************************************************************)
(* The checks, in the order dir() lists them (ascending by name).          *)
(***************************************************************************)
\* dir(self): the attribute names of an EmailChecker, ascending, each with
\* the words its underscores separate (object's own names, all of the form
\* __x__ like __init__, stand before them)
Attributes ==
    << [name |-> "__init__",                 words |-> <<"", "", "init", "", "">>],
       [name |-> "_gevent",                  words |-> <<"", "gevent">>],
       [name |-> "check_nothing",            words |-> <<"check", "nothing">>],
       [name |-> "check_valid_email_string", words |-> <<"check", "valid", "email", "string">>],
       [name |-> "check_valid_mx_records",   words |-> <<"check", "valid", "mx", "records">>],
       [name |-> "checks",                   words |-> <<"checks">>],
       [name |-> "didyoumean",               words |-> <<"didyoumean">>],
       [name |-> "domain",                   words |-> <<"domain">>],
       [name |-> "email",                    words |-> <<"email">>],
       [name |-> "errors",                   words |-> <<"errors">>],
       [name |-> "mx_records",               words |-> <<"mx", "records">>],
       [name |-> "username",                 words |-> <<"username">>],
       [name |-> "validate",                 words |-> <<"validate">>] >>

\* a slip: the prefix is 'check', without the underscore
IsCheck_PrefixCheck(a) == a.words[1] \in {"check", "checks"}

\* name.startswith('check_'): the first word is check and an underscore follows
IsCheck(a) == Len(a.words) >= 2 /\ a.words[1] = "check"

\* EmailChecker.checks: the attributes whose name starts with check_
checks == [k \in 1..Len(SelectSeq(Attributes, IsCheck)) |-> SelectSeq(Attributes, IsCheck)[k].name]
NChecks == Len(checks)

\* check_nothing
check_nothing == <<>>

\* check_valid_email_string
check_valid_email_string(e) ==
    IF VALID_ADDRESS_REGEXP(e) THEN <<>> ELSE <<InvalidEmailError>>

\* a slip: an empty record list is not reported
MxCheckResult_NoEmptyCheck(l) == <<>>

\* check_valid_mx_records once the lookup has returned the list l
MxCheckResult(l) == IF Len(l) = 0 THEN <<NoMxError>> ELSE <<>>

(***************************************************************************)
(* The state.                                                              *)
(***************************************************************************)
VARIABLES
    email,          \* self.email
    gevent,         \* self._gevent: concurrent mode
    errors,         \* self.errors
    mx_records,     \* self.mx_records
    server,         \* Base.defaults['server']
    server_rotate,  \* Base.defaults['server_rotate']
    calls,          \* the validate calls started so far
    pc,             \* where validate stands: "idle", "joinall", "checks"
    results,        \* validate's results: results[i] is the run of check i
                    \* by the latest call
    orphans,        \* the greenlets of earlier calls that joinall gave up
                    \* waiting for, still alive in the hub (a bag)
    completed,      \* the checks of the latest call in the order they finished
    returned,       \* what each finished call gave its caller; with the
                    \* latest, the DNS outcomes its MX check had received
    correct,        \* the spelling collaborator didyoumean imports
    suggested       \* what the last didyoumean call gave its caller

vars == <<email, gevent, errors, mx_records, server, server_rotate, calls, pc,
          results, orphans, completed, returned, correct, suggested>>

\* a check run: st is "none" (no call yet), "spawned", "q1", "q2" (waiting
\* for the reply to the first or second query), "done" with its value, or
\* "failed" with an exception; sent and got are the queries it issued and
\* the outcomes it received, lookup is what mxlookup came back with
NoJob == [st |-> "none", value |-> <<>>, sent |-> <<>>, got |-> <<>>, lookup |-> None]
Spawned == [NoJob EXCEPT !.st = "spawned"]
Finished(j) == j.st \in {"done", "failed"}
Waiting(j) == j.st \in {"q1", "q2"}

\* a slip: a check that has not returned counts as an MX failure
Value_TimeoutAsError(j) == IF j.st = "done" THEN Some(j.value) ELSE Some(<<NoMxError>>)

\* Greenlet.value: the check's list once it has returned, None before that
\* and when it raised
Value(j) == IF j.st = "done" THEN Some(j.value) ELSE None

(***************************************************************************)
(* didyoumean and its spelling collaborator.  correct maps a label to a    *)
(* label; the collaborator in use is named by the one label it changes     *)
(* and what it changes it to (none when the two are the same).             *)
(***************************************************************************)
\* the labels the collaborators of the model change and change to
Labels == {<<>>, <<"a">>, <<"a", "a">>}
Correctors == [from : Labels, to : Labels]
NoCorrection == [from |-> <<>>, to |-> <<>>]

\* correct(label)
Correct(c, label) == IF label = c.from THEN c.to ELSE label

RECURSIVE JoinFrom(_, _, _)
\* sep.join(items) continued at item i
JoinFrom(items, sep, i) ==
    IF i > Len(items) THEN <<>>
    ELSE IF i = Len(items) THEN items[i]
    ELSE items[i] \o <<sep>> \o JoinFrom(items, sep, i + 1)

\* sep.join(items)
Join(items, sep) == JoinFrom(items, sep, 1)


\* EmailChecker.didyoumean with the collaborator c
didyoumean(e, c) ==
    IF Truthy(domain(e))
    THEN LET items == Split(domain(e).v, ".")
             suggestion == username(e) \o <<"@">>
                 \o Join([k \in 1..Len(items) |-> Correct(c, items[k])], ".")
         IN IF suggestion = e THEN None ELSE Some(suggestion)
    ELSE None

\* no didyoumean call has returned yet
NotAsked == [asked |-> FALSE]

Init ==
    /\ email \in Strings(MaxLen)
    /\ gevent \in BOOLEAN
    /\ errors = <<>>
    /\ mx_records = None
    /\ server = <<>>
    /\ server_rotate \in BOOLEAN
    /\ calls = 0
    /\ pc = "idle"
    /\ results = [i \in 1..NChecks |-> NoJob]
    /\ orphans = EmptyBag
    /\ completed = <<>>
    /\ returned = <<>>
    /\ correct = NoCorrection
    /\ suggested = NotAsked

(***************************************************************************)
(* validate: the aggregation step.                                         *)
(***************************************************************************)
RECURSIVE MergeFrom(_, _, _)
\* for result in results: if result.value: self.errors += result.value
MergeFrom(errs, res, i) ==
    IF i > Len(res) THEN errs
    ELSE MergeFrom(IF Truthy(Value(res[i])) THEN errs \o Value(res[i]).v ELSE errs,
                   res, i + 1)

\* a slip: the values are appended in the order the greenlets finished
Merge_CompletionOrder(errs, res) ==
    MergeFrom(errs, [k \in 1..Len(completed) |-> res[completed[k]]], 1)

\* a slip: the greenlets are gone through from the last to the first
Merge_LastFirst(errs, res) ==
    MergeFrom(errs, [k \in 1..Len(res) |-> res[Len(res) + 1 - k]], 1)

\* the error list after the aggregation over the greenlets in results
Merge(errs, res) == MergeFrom(errs, res, 1)

RECURSIVE ExtendFrom(_, _, _)
\* for result in [check() for check in self.checks]: self.errors += result
ExtendFrom(errs, res, i) ==
    IF i > Len(res) THEN errs
    ELSE ExtendFrom(errs \o res[i].value, res, i + 1)

\* the error list after the sequential mode's loop over the lists returned
Extend(errs, res) == ExtendFrom(errs, res, 1)

\* what the caller of validate gets: the list, or the exception that left it
ReturnList(l, dns) == [kind |-> "list", value |-> l, dns |-> dns]
Raise(dns) == [kind |-> "raise", value |-> <<>>, dns |-> dns]

\* the calls returned so far and the one returning now with r
Returns(rs, r) == Append([k \in 1..Len(rs) |-> [rs[k] EXCEPT !.dns = <<>>]], r)

(***************************************************************************)
(* validate, up to its first suspension: the checks are collected and, in  *)
(* concurrent mode, spawned; joinall then waits.  In sequential mode the   *)
(* checks are about to be called one after the other.  The results of the  *)
(* call before are dropped; a greenlet of it that has not finished lives   *)
(* on in the hub.                                                          *)
(***************************************************************************)
\* the checks of res that have started and not finished
Unfinished(res) == {i \in 1..NChecks : Waiting(res[i])}

RECURSIVE BagOf(_, _)
\* the bag of the runs in res at the positions in S
BagOf(res, S) ==
    IF S = {} THEN EmptyBag
    ELSE LET i == CHOOSE k \in S : TRUE
         IN SetToBag({res[i]}) (+) BagOf(res, S \ {i})

Validate ==
    /\ pc = "idle"
    /\ calls < MaxCalls
    /\ calls' = calls + 1
    /\ orphans' = orphans (+) BagOf(results, Unfinished(results))
    /\ results' = [i \in 1..NChecks |-> Spawned]
    /\ completed' = <<>>
    /\ pc' = IF gevent THEN "joinall" ELSE "checks"
    /\ UNCHANGED <<correct, suggested, email, gevent, errors, mx_records, server, server_rotate, returned>>

\* check i may start: a spawned greenlet when the hub runs it, in sequential
\* mode the next check of the list comprehension
MayStart(i) ==
    /\ results[i].st = "spawned"
    /\ gevent \/ (pc = "checks" /\ \A j \in 1..(i - 1) : results[j].st = "done")

Done(j, v) == [j EXCEPT !.st = "done", !.value = v]

RunNothing ==
    /\ MayStart(1)
    /\ results' = [results EXCEPT ![1] = Done(@, check_nothing)]
    /\ completed' = Append(completed, 1)
    /\ UNCHANGED <<correct, suggested, email, gevent, errors, mx_records, server, server_rotate, calls, pc,
                   orphans, returned>>

\* a slip: the check appends its error to self.errors itself
RunEmailString_WritesErrors ==
    /\ MayStart(2)
    /\ results' = [results EXCEPT ![2] = Done(@, check_valid_email_string(email))]
    /\ errors' = errors \o check_valid_email_string(email)
    /\ completed' = Append(completed, 2)
    /\ UNCHANGED <<correct, suggested, email, gevent, mx_records, server, server_rotate, calls, pc,
                   orphans, returned>>

RunEmailString ==
    /\ MayStart(2)
    /\ results' = [results EXCEPT ![2] = Done(@, check_valid_email_string(email))]
    /\ completed' = Append(completed, 2)
    /\ UNCHANGED <<correct, suggested, email, gevent, errors, mx_records, server, server_rotate, calls, pc,
                   orphans, returned>>

\* Base.DiscoverNameServers(), called when Base.defaults['server'] == []
DiscoverNameServers(sv) == IF sv = <<>> THEN <<"ns1", "ns2">> ELSE sv

\* check_valid_mx_records up to the first query: without a domain it returns
\* the error at once, otherwise mxlookup issues the first request and waits
RunMxRecords ==
    /\ MayStart(3)
    /\ IF ~Truthy(domain(email))
       THEN /\ results' = [results EXCEPT ![3] = Done(@, <<NoMxError>>)]
            /\ completed' = Append(completed, 3)
            /\ UNCHANGED server
       ELSE /\ server' = DiscoverNameServers(server)
            /\ UNCHANGED completed
            /\ results' = [results EXCEPT ![3] =
                             [@ EXCEPT !.st = "q1",
                                       !.sent = <<DnsRequest(domain(email).v, "mx")>>]]
    /\ UNCHANGED <<correct, suggested, email, gevent, errors, mx_records, server_rotate, calls, pc,
                   orphans, returned>>

(***************************************************************************)
(* The MX checks waiting for a reply: the one of the latest call (cur) and *)
(* the orphans.  The hub delivers a reply once every spawned greenlet has  *)
(* had its first run; the sequential call blocks in the request.           *)
(***************************************************************************)
Waiters ==
    LET cur  == IF Waiting(results[3]) /\ (gevent \/ pc = "checks")
                THEN {[cur |-> TRUE, job |-> results[3]]} ELSE {}
        orph == {[cur |-> FALSE, job |-> j] : j \in BagToSet(orphans)}
    IN IF gevent /\ \E i \in 1..NChecks : results[i].st = "spawned"
       THEN {} ELSE cur \cup orph

\* the waiting check w goes on as the run j: the latest call's in results;
\* an orphan in the hub, which forgets it once it has finished
Resume(w, j) ==
    IF w.cur
    THEN /\ results' = [results EXCEPT ![3] = j]
         /\ completed' = IF Finished(j) THEN Append(completed, 3) ELSE completed
         /\ UNCHANGED orphans
    ELSE /\ orphans' = (orphans (-) SetToBag({w.job}))
                          (+) (IF Finished(j) THEN EmptyBag ELSE SetToBag({j}))
         /\ UNCHANGED <<results, completed>>

\* the request fails with an exception that is not a ServerError: the check
\* does not catch it.  A greenlet dies with it; in sequential mode it leaves
\* validate
ReplyFault(w) ==
    /\ Resume(w, [w.job EXCEPT !.st = "failed", !.got = Append(@, [kind |-> "fault"]),
                               !.lookup = Some([kind |-> "fault"])])
    /\ IF gevent
       THEN UNCHANGED <<pc, returned>>
       ELSE pc' = "idle" /\ returned' = Returns(returned, Raise(results'[3].got))
    /\ UNCHANGED <<correct, suggested, email, gevent, errors, mx_records, server, server_rotate, calls>>

\* a reply whose status is not NOERROR: dnslookup raises ServerError, which
\* check_valid_mx_records turns into its error
ReplyServerError(w, o) ==
    /\ o.kind = "reply"
    /\ RaisesServerError(o)
    /\ Resume(w, [w.job EXCEPT !.st = "done", !.value = <<NoMxError>>, !.got = Append(@, o),
                               !.lookup = Some([kind |-> "ServerError", status |-> o.status])])
    /\ UNCHANGED <<correct, suggested, email, gevent, errors, mx_records, server, server_rotate, calls, pc,
                   returned>>

\* the first reply is NOERROR without answers and rotation is on: the
\* request is issued once more
ReplyRetry(w, o) ==
    /\ w.job.st = "q1"
    /\ o.kind = "reply"
    /\ ~RaisesServerError(o)
    /\ Retries(o, server_rotate)
    /\ Resume(w, [w.job EXCEPT !.st = "q2",
                               !.sent = Append(@, DnsRequest(domain(email).v, "mx")),
                               !.got = Append(@, o)])
    /\ UNCHANGED <<correct, suggested, email, gevent, errors, mx_records, server, server_rotate, calls, pc,
                   returned>>

\* the final reply is NOERROR: mxlookup returns the sorted data, the check
\* stores it in self.mx_records and returns its error if the list is empty
ReplyAnswers(w, o) ==
    /\ o.kind = "reply"
    /\ ~RaisesServerError(o)
    /\ ~(w.job.st = "q1" /\ Retries(o, server_rotate))
    /\ mx_records' = Some(MxResult(o))
    /\ Resume(w, [w.job EXCEPT !.st = "done", !.value = MxCheckResult(MxResult(o)),
                               !.got = Append(@, o),
                               !.lookup = Some([kind |-> "list", value |-> MxResult(o)])])
    /\ UNCHANGED <<correct, suggested, email, gevent, errors, server, server_rotate, calls, pc, returned>>

\* joinall returns because every greenlet has finished; validate aggregates
\* and returns self.errors
JoinAll ==
    /\ pc = "joinall"
    /\ \A i \in 1..NChecks : Finished(results[i])
    /\ errors' = Merge(errors, results)
    /\ returned' = Returns(returned, ReturnList(errors', results[3].got))
    /\ pc' = "idle"
    /\ UNCHANGED <<correct, suggested, email, gevent, mx_records, server, server_rotate, calls, results, orphans,
                   completed>>

\* joinall returns because its timeout elapsed: the hub ran every greenlet
\* as far as it could and one is still waiting for its reply; validate
\* aggregates what there is and returns self.errors
JoinTimeout ==
    /\ pc = "joinall"
    /\ \A i \in 1..NChecks : results[i].st # "spawned"
    /\ Unfinished(results) # {}
    /\ errors' = Merge(errors, results)
    /\ returned' = Returns(returned, ReturnList(errors', results[3].got))
    /\ pc' = "idle"
    /\ UNCHANGED <<correct, suggested, email, gevent, mx_records, server, server_rotate, calls, results, orphans,
                   completed>>

\* sequential mode: every check has returned; validate aggregates and returns
SequentialReturn ==
    /\ pc = "checks"
    /\ \A i \in 1..NChecks : results[i].st = "done"
    /\ errors' = Extend(errors, results)
    /\ returned' = Returns(returned, ReturnList(errors', results[3].got))
    /\ pc' = "idle"
    /\ UNCHANGED <<correct, suggested, email, gevent, mx_records, server, server_rotate, calls, results, orphans,
                   completed>>

Next ==
    \/ Validate
    \/ RunNothing
    \/ RunEmailString
    \/ RunMxRecords
    \/ \E w \in Waiters : ReplyFault(w)
    \/ \E w \in Waiters, o \in Outcomes : ReplyServerError(w, o)
    \/ \E w \in Waiters, o \in Outcomes : ReplyRetry(w, o)
    \/ \E w \in Waiters, o \in Outcomes : ReplyAnswers(w, o)
    \/ JoinAll
    \/ JoinTimeout
    \/ SequentialReturn

Spec == Init /\ [][Next]_vars

(***************************************************************************)
(* A Subject on its own: the caller constructs it from an address, asks    *)
(* for a suggestion and calls the syntax check, in either order.  Nothing  *)
(* here touches the network, so the addresses can be longer.               *)
(***************************************************************************)
SubjectChars == {"a", "@", ".", "\n", "\r"}

InitSubject ==
    /\ email \in UNION {[1..k -> SubjectChars] : k \in 0..MaxAddrLen}
    /\ correct \in Correctors
    /\ suggested = NotAsked
    /\ gevent = FALSE
    /\ errors = <<>>
    /\ mx_records = None
    /\ server = <<>>
    /\ server_rotate = FALSE
    /\ calls = 0
    /\ pc = "idle"
    /\ results = [i \in 1..NChecks |-> NoJob]
    /\ orphans = EmptyBag
    /\ completed = <<>>
    /\ returned = <<>>

\* subject.didyoumean()
DidYouMean ==
    /\ suggested = NotAsked
    /\ suggested' = [asked |-> TRUE, value |-> didyoumean(email, correct)]
    /\ UNCHANGED <<correct, email, gevent, errors, mx_records, server, server_rotate, calls,
                   pc, results, orphans, completed, returned>>

\* subject.check_valid_email_string()
CallEmailString ==
    /\ results[2].st = "none"
    /\ results' = [results EXCEPT ![2] = Done(@, check_valid_email_string(email))]
    /\ UNCHANGED <<correct, suggested, email, gevent, errors, mx_records, server,
                   server_rotate, calls, pc, orphans, completed, returned>>

NextSubject ==
    \/ DidYouMean
    \/ CallEmailString

SpecSubject == InitSubject /\ [][NextSubject]_vars

(***************************************************************************)
(* Vocabulary of the properties.                                           *)
(***************************************************************************)
\* the address contains an '@'
HasAt(e) == \E k \in 1..Len(e) : e[k] = "@"
\* the position of the first '@' of an address that has one
FirstAt(e) == CHOOSE k \in 1..Len(e) : e[k] = "@" /\ \A m \in 1..(k - 1) : e[m] # "@"
BeforeFirstAt(e) == SubSeq(e, 1, FirstAt(e) - 1)
AfterFirstAt(e) == SubSeq(e, FirstAt(e) + 1, Len(e))

Last(q) == q[Len(q)]
Elems(q) == {q[k] : k \in 1..Len(q)}
\* how many errors of severity sev the list q holds
CountSeverity(q, sev) == Cardinality({k \in 1..Len(q) : q[k].severity = sev})

\* this step is a call of validate coming back to its caller
ReturnStep == Len(returned') = Len(returned) + 1
\* ... with the list
ReturnsList == ReturnStep /\ Last(returned').kind = "list"
\* what this step appended to self.errors
Added == SubSeq(errors', Len(errors) + 1, Len(errors'))

\* the list a check has returned, nothing for a check that has not
DoneValue(j) == IF j.st = "done" THEN j.value ELSE <<>>
\* the position in the discovery order of the check that returns the error e
Producer(e) ==
    CHOOSE k \in 1..NChecks :
        checks[k] = (IF e.severity = 10 THEN "check_valid_email_string"
                     ELSE "check_valid_mx_records")

\* the MX check runs there are: the latest call's and the orphans
MxJobs == {results[3]} \cup BagToSet(orphans)
IsReply(o, statuses) == o.kind = "reply" /\ o.status \in statuses
IsServerError(l) == l.some /\ l.v.kind = "ServerError"

(***************************************************************************)
(* C1.  validate never raises to the caller: every call comes back with   *)
(* the list, and when a check of the call failed with a fault the list    *)
(* holds every Error the other checks returned.                            *)
(* Fails: in sequential mode the fault leaves validate.                    *)
(***************************************************************************)
C1_ValidateNeverRaises ==
    /\ \A k \in 1..Len(returned) : returned[k].kind = "list"
    /\ (pc = "idle" /\ Len(returned) = calls /\ \E i \in 1..NChecks : results[i].st = "failed")
          => \A i \in 1..NChecks :
                Elems(DoneValue(results[i])) \subseteq Elems(Last(returned).value)

(***************************************************************************)
(* C2.  When joinall times out with a check still running, validate       *)
(* returns at once, the running check adds no Error, and the list grows   *)
(* by exactly the Errors of the checks that did complete.                  *)
(***************************************************************************)
C2_TimeoutAbandons ==
    [][ (pc = "joinall" /\ pc' = "idle" /\ \E i \in 1..NChecks : ~Finished(results[i]))
          => /\ ReturnsList
             /\ Last(returned').value = errors'
             /\ \E i \in 1..NChecks : ~Finished(results'[i])
             /\ errors' = errors \o DoneValue(results[1]) \o DoneValue(results[2])
                                 \o DoneValue(results[3]) ]_vars

\* a call has timed out on the MX check and returned the syntax check's Error
C2_Witness ==
    /\ gevent /\ pc = "idle" /\ Len(returned) = 1
    /\ Waiting(results[3])
    /\ returned[1].value = <<InvalidEmailError>>

(***************************************************************************)
(* C3.  A second validate on the same Subject, the DNS collaborator       *)
(* giving the same outcomes as in the first, returns the same errors as   *)
(* the first returned.                                                     *)
(* Fails: self.errors is never reset, the second call returns the first's *)
(* errors followed by its own.                                             *)
(***************************************************************************)
C3_Idempotent ==
    [][ (ReturnsList /\ Len(returned) >= 1 /\ Last(returned).kind = "list"
           /\ Last(returned').dns = Last(returned).dns)
          => Last(returned').value = Last(returned).value ]_vars

(***************************************************************************)
(* C4.  In both modes the Errors a call adds to the list it returns stand *)
(* in the discovery order of the checks that produced them, whatever the  *)
(* order the checks completed in.                                          *)
(***************************************************************************)
C4_DiscoveryOrder ==
    [][ ReturnsList
          => /\ Last(returned').value = errors'
             /\ \A i, j \in 1..Len(Added) :
                   i < j => Producer(Added[i]) <= Producer(Added[j]) ]_vars

\* concurrent mode, the MX check completed first and the no-op check last,
\* and the list holds the syntax Error before the MX Error
C4_Witness ==
    /\ gevent /\ pc = "idle" /\ Len(returned) = 1
    /\ completed = <<3, 2, 1>>
    /\ returned[1].value = <<InvalidEmailError, NoMxError>>

(***************************************************************************)
(* C5.  mxlookup issues at most two queries; the second one if and only   *)
(* if the first reply was NOERROR without answers and rotation is on; a   *)
(* first reply with another status is a ServerError with no second query; *)
(* a second reply with another status is a ServerError.                    *)
(***************************************************************************)
C5_AtMostTwoQueries ==
    \A j \in MxJobs :
        /\ Len(j.sent) <= 2
        /\ Len(j.got) = 0 => Len(j.sent) <= 1
        /\ Len(j.got) >= 1 =>
              (Len(j.sent) = 2 <=>
                  /\ IsReply(j.got[1], {"NOERROR"})
                  /\ Len(j.got[1].answers) = 0
                  /\ server_rotate)
        /\ (Len(j.got) >= 1 /\ IsReply(j.got[1], Statuses \ {"NOERROR"}))
              => Len(j.sent) = 1 /\ IsServerError(j.lookup)
        /\ (Len(j.got) = 2 /\ IsReply(j.got[2], Statuses \ {"NOERROR"}))
              => IsServerError(j.lookup)

\* a lookup that retried and whose second reply was not NOERROR
C5_Witness ==
    /\ Len(results[3].sent) = 2
    /\ Len(results[3].got) = 2
    /\ IsReply(results[3].got[2], Statuses \ {"NOERROR"})
    /\ IsServerError(results[3].lookup)

(***************************************************************************)
(* C6.  First call on a Subject with a grammar-valid address, every check *)
(* completed: the list is empty when the lookup returned records; it      *)
(* holds exactly one severity-7 Error and no severity-10 Error when the   *)
(* lookup raised ServerError or returned no record.                        *)
(***************************************************************************)
C6_ValidAddressMx ==
    [][ (ReturnStep /\ calls = 1 /\ VALID_ADDRESS_REGEXP(email)
           /\ (\A i \in 1..NChecks : results[i].st = "done")
           /\ results[3].lookup.some)
          => /\ ReturnsList
             /\ (results[3].lookup.v.kind = "list" /\ results[3].lookup.v.value # <<>>)
                   => Last(returned').value = <<>>
             /\ (\/ results[3].lookup.v.kind = "ServerError"
                 \/ results[3].lookup.v.kind = "list" /\ results[3].lookup.v.value = <<>>)
                   => /\ CountSeverity(Last(returned').value, 7) = 1
                      /\ CountSeverity(Last(returned').value, 10) = 0
                      /\ Len(Last(returned').value) = 1 ]_vars

\* a valid address whose lookup raised ServerError, and the list returned
C6_Witness ==
    /\ pc = "idle" /\ calls = 1 /\ Len(returned) = 1
    /\ VALID_ADDRESS_REGEXP(email)
    /\ IsServerError(results[3].lookup)
    /\ returned[1].value = <<NoMxError>>

(***************************************************************************)
(* C7.  For an address without '@' the first validate returns exactly two *)
(* Errors: the severity-10 'Invalid email address.' and a severity-7 one. *)
(***************************************************************************)
C7_NoAtBothErrors ==
    (~HasAt(email) /\ Len(returned) >= 1)
       => /\ returned[1].kind = "list"
          /\ Len(returned[1].value) = 2
          /\ [severity |-> 10, message |-> "Invalid email address."] \in Elems(returned[1].value)
          /\ CountSeverity(returned[1].value, 7) = 1

\* concurrent mode, a non-empty address without '@', the first call returned
C7_Witness ==
    /\ gevent /\ ~HasAt(email) /\ email # <<>>
    /\ Len(returned) = 1 /\ Len(returned[1].value) = 2

(***************************************************************************)
(* C8.  The domain is None if and only if the address has no '@'; with an *)
(* '@' the domain is everything after the first '@' and the local part    *)
(* everything before it.                                                   *)
(* Fails: split('@')[1] stops at the second '@'.                           *)
(***************************************************************************)
C8_DomainAfterFirstAt ==
    results[3].st \notin {"none", "spawned"}
       => /\ (domain(email) = None) <=> ~HasAt(email)
          /\ HasAt(email) => /\ domain(email) = Some(AfterFirstAt(email))
                             /\ username(email) = BeforeFirstAt(email)
                             /\ \A k \in 1..Len(results[3].sent) :
                                   results[3].sent[k].name = AfterFirstAt(email)

(***************************************************************************)
(* C9.  Once validate has returned, no check it abandoned changes the     *)
(* Subject: with no call under way errors and mx_records stay as they are.*)
(* Fails: the abandoned greenlet is not killed and stores its records.    *)
(***************************************************************************)
C9_AbandonedHasNoEffect ==
    [][ (pc = "idle" /\ pc' = "idle" /\ Len(returned) >= 1)
          => errors' = errors /\ mx_records' = mx_records ]_vars

(***************************************************************************)
(* C10.  mx_records changes only in a step of an MX check whose lookup    *)
(* ends with a NOERROR reply, to the sorted data of a reply; no step of   *)
(* validate and no other check writes it; a lookup that ends with a fault *)
(* or another status leaves it as it was.                                  *)
(***************************************************************************)
C10_MxRecordsOnlyOnSuccess ==
    [][ /\ mx_records' # mx_records
           => /\ Waiters # {}
              /\ results'[3] # results[3] \/ orphans' # orphans
              /\ results'[1] = results[1] /\ results'[2] = results[2]
              /\ errors' = errors /\ pc' = pc /\ returned' = returned /\ calls' = calls
              /\ \E o \in Outcomes :
                    /\ IsReply(o, {"NOERROR"})
                    /\ mx_records' = Some(Sorted(AnswerData(o.answers)))
        /\ (results'[3] # results[3] /\ Finished(results'[3]) /\ results'[3].got # <<>>)
           => IF IsReply(Last(results'[3].got), {"NOERROR"})
              THEN mx_records' = Some(Sorted(AnswerData(Last(results'[3].got).answers)))
              ELSE mx_records' = mx_records ]_vars

\* records stored by an earlier call are still there after a lookup of the
\* second call raised ServerError
C10_Witness ==
    /\ calls = 2
    /\ IsServerError(results[3].lookup)
    /\ mx_records.some /\ mx_records.v # <<>>

\* the labels of the address's domain, and whether the collaborator changes one
DomainLabels(e) == IF Truthy(domain(e)) THEN Split(domain(e).v, ".") ELSE <<>>
ChangesALabel(c, e) == \E k \in 1..Len(DomainLabels(e)) : Correct(c, DomainLabels(e)[k]) # DomainLabels(e)[k]
Corrected(c, e) ==
    username(e) \o <<"@">>
        \o Join([k \in 1..Len(DomainLabels(e)) |-> Correct(c, DomainLabels(e)[k])], ".")

\* C11: when the spelling collaborator maps every label of the domain to
\* itself didyoumean returns None, whatever the address, never a string;
\* when it changes at least one label didyoumean returns the local part,
\* '@' and the corrected labels joined with '.'.
C11_SuggestionOnlyWhenCorrected ==
    suggested # NotAsked =>
        /\ ~ChangesALabel(correct, email) => suggested.value = None
        /\ ChangesALabel(correct, email) => suggested.value = Some(Corrected(correct, email))

\* the number of times x occurs in the list q
Count(x, q) == Cardinality({k \in 1..Len(q) : q[k] = x})
\* the list of (preference, exchanger) pairs ascends: by preference, and by
\* exchanger among equal preferences
Ascending(q) ==
    \A i, j \in 1..Len(q) :
        i < j => \/ q[i][1] < q[j][1]
                 \/ q[i][1] = q[j][1] /\ HostRank(q[i][2]) <= HostRank(q[j][2])
\* the MX check run j has its mxlookup behind it and the last reply was NOERROR
LookupEndedNoError(j) ==
    j.lookup # None /\ j.got # <<>> /\ IsReply(Last(j.got), {"NOERROR"})

\* C12: when the final DNS query comes back NOERROR, mxlookup returns a
\* list (it does not fail): the data of that reply's answers, each as often
\* as it was answered, ascending by (preference, exchanger); with no answers
\* that is the empty list.
C12_LookupSortedPermutation ==
    \A j \in MxJobs :
        LookupEndedNoError(j) =>
            LET data == AnswerData(Last(j.got).answers) IN
            /\ j.lookup.v.kind = "list"
            /\ Len(j.lookup.v.value) = Len(data)
            /\ \A x \in Elems(data) \cup Elems(j.lookup.v.value) :
                   Count(x, j.lookup.v.value) = Count(x, data)
            /\ Ascending(j.lookup.v.value)
            /\ data = <<>> => j.lookup.v.value = <<>>
\* an mxlookup has returned three records that were answered out of order
C12_Witness ==
    /\ LookupEndedNoError(results[3])
    /\ Len(results[3].lookup.v.value) = 3
    /\ ~Ascending(AnswerData(Last(results[3].got).answers))

\* s is an addr-spec: the grammar derives the whole of it
IsAddrSpec(s) == Match(ADDR_SPEC, s)
\* s is an addr-spec with one more character before or after it
OneCharAround(s) ==
    /\ Len(s) >= 1
    /\ IsAddrSpec(SubSeq(s, 1, Len(s) - 1)) \/ IsAddrSpec(SubSeq(s, 2, Len(s)))
\* check_valid_email_string has been called and returned no error
Accepted == results[2].st = "done" /\ results[2].value = <<>>

\* C13: the syntax check matches the whole string: a valid address with one
\* character (a line feed and a carriage return included) put before or
\* after it is accepted only if the longer string is a valid addr-spec too.
C13_WholeStringMatch ==
    (Accepted /\ OneCharAround(email)) => IsAddrSpec(email)

\* check i of the latest call has been invoked
Invoked(res, i) == res[i].st \notin {"none", "spawned"}

\* C14: the checks validate runs are found by enumeration and are the three
\* check_ methods; a call of validate, in either mode, sets out to run each
\* of them, has invoked every one by the time it returns, and invokes none
\* a second time.
C14_EveryCheckOnce ==
    [][ /\ checks = <<"check_nothing", "check_valid_email_string", "check_valid_mx_records">>
        /\ calls' = calls + 1 =>
               /\ Len(results') = Len(checks)
               /\ \A i \in 1..Len(checks) : results'[i].st = "spawned"
        /\ ReturnStep => \A i \in 1..Len(checks) : Invoked(results, i) /\ Invoked(results', i)
        /\ calls' = calls =>
               \A i \in 1..Len(checks) : Invoked(results, i) => Invoked(results', i)
      ]_vars
\* a call has returned in sequential mode with its three checks run
C14_Witness ==
    /\ ~gevent
    /\ calls = 1
    /\ pc = "idle"
    /\ \A i \in 1..Len(checks) : results[i].st = "done"

\* C15: no check writes the error list: a step that changes self.errors is
\* validate's aggregation on its way back to the caller, it moves no check,
\* and in concurrent mode it comes after joinall has returned, when no
\* greenlet is left that has yet to start.
C15_OnlyAggregationWrites ==
    [][ errors' # errors =>
            /\ ReturnStep
            /\ pc \in {"joinall", "checks"} /\ pc' = "idle"
            /\ results' = results /\ orphans' = orphans /\ completed' = completed
            /\ gevent => pc = "joinall" /\ \A i \in 1..NChecks : results[i].st # "spawned"
            /\ ~gevent => \A i \in 1..NChecks : results[i].st = "done"
      ]_vars
\* a concurrent call has written errors while an abandoned greenlet lives
C15_Witness ==
    /\ gevent
    /\ pc = "idle"
    /\ errors # <<>>
    /\ orphans # EmptyBag

\* the request q sets the parameter named p to the value v
Sets(q, p, v) == p \in DOMAIN q /\ q[p] = v

\* C16: every DNS query mxlookup issues, the first and the retry, is issued
\* with the timeout parameter of the DNS collaborator set to 5.
C16_QueriesTimeoutFive ==
    \A j \in MxJobs : \A k \in 1..Len(j.sent) : Sets(j.sent[k], "timeout", 5)

\* the list p is how the list q begins
IsPrefix(p, q) == Len(p) <= Len(q) /\ SubSeq(q, 1, Len(p)) = p
\* the lists returned by the checks of res that have completed, concatenated
\* in discovery order
CompletedLists(res) == DoneValue(res[1]) \o DoneValue(res[2]) \o DoneValue(res[3])

\* C17: the error list is append-only across validate calls: no step takes
\* an Error out of it or moves one, and a call coming back has extended it
\* by exactly the lists returned by the checks that completed during the
\* call, concatenated in discovery order (so after the first call its
\* length is the sum of their lengths).
C17_AppendOnly ==
    [][ /\ IsPrefix(errors, errors')
        /\ ReturnStep =>
               /\ Added = CompletedLists(results)
               /\ Len(returned) = 0 =>
                      Len(errors') = Len(DoneValue(results[1])) + Len(DoneValue(results[2]))
                                         + Len(DoneValue(results[3]))
      ]_vars

\* the address has no '@', or nothing after its first '@'
NoDomain(e) == ~HasAt(e) \/ AfterFirstAt(e) = <<>>
\* the MX check run j has not called mxlookup; if it has returned, then
\* the one severity-7 error
NoLookup(j) ==
    /\ j.sent = <<>> /\ j.got = <<>> /\ j.lookup = None
    /\ j.st \in {"none", "spawned", "done"}
    /\ j.st = "done" => j.value = <<NoMxError>>
\* the latest call's MX check calls mxlookup in this step
CallsMxLookup == results[3].sent = <<>> /\ results'[3].sent # <<>>

\* C18: the MX check queries DNS only for a non-empty domain: for an address
\* without '@' or with nothing after its first '@' it returns the
\* severity-7 error without calling mxlookup and mx_records stays as
\* constructed; and a validate call calls mxlookup at most once: only its MX
\* check does, when it starts, and it starts once.
C18_NoDomainNoLookup ==
    [][ /\ NoDomain(email) =>
               /\ \A j \in MxJobs : NoLookup(j)
               /\ \A j \in {results'[3]} \cup BagToSet(orphans') : NoLookup(j)
               /\ mx_records = None /\ mx_records' = None
               /\ server = <<>> /\ server' = <<>>
        /\ \A i \in 1..2 : results[i].sent = <<>> /\ results'[i].sent = <<>>
        /\ CallsMxLookup =>
               /\ ~NoDomain(email)
               /\ calls' = calls
               /\ results[3].st = "spawned" /\ results'[3].st # "spawned"
               /\ Len(results'[3].sent) = 1
        /\ (calls' = calls /\ results[3].st # "spawned") => results'[3].st # "spawned"
      ]_vars
\* the MX check of an address that ends with its first '@' has returned
C18_Witness ==
    /\ HasAt(email)
    /\ NoDomain(email)
    /\ results[3].st = "done"
    /\ results[3].value = <<NoMxError>>
    /\ results[3].sent = <<>>

\* what the MX check returns after the DNS outcomes got: its error unless
\* the last reply was NOERROR with answers (no outcome: there was no domain)
MxErrorsAfter(got) ==
    IF got # <<>> /\ IsReply(Last(got), {"NOERROR"}) /\ Last(got).answers # <<>>
    THEN <<>> ELSE <<NoMxError>>
\* the records a fresh Subject holds after the DNS outcomes got
MxRecordsAfter(got) ==
    IF got # <<>> /\ IsReply(Last(got), {"NOERROR"})
    THEN Some(MxResult(Last(got))) ELSE None
\* the first validate call of the Subject returns, every check having returned
FirstCallCompletes ==
    /\ ReturnStep
    /\ Len(returned) = 0
    /\ \A i \in 1..NChecks : results[i].st = "done"

\* C19: when every check completes before the timeout and none raises, what
\* validate returns on a fresh Subject and the mx_records it leaves are
\* determined by the address and the DNS outcomes alone, the same in
\* concurrent as in sequential mode: the syntax check's list followed by
\* the MX check's, and the sorted records of the last NOERROR reply.
C19_ModesAgree ==
    [][ FirstCallCompletes =>
            /\ Last(returned').kind = "list"
            /\ Last(returned').value = check_valid_email_string(email) \o MxErrorsAfter(results[3].got)
            /\ errors' = Last(returned').value
            /\ mx_records' = MxRecordsAfter(results[3].got)
      ]_vars
\* a concurrent first call has returned both errors, the MX check's after
\* a reply
C19_Witness ==
    /\ gevent
    /\ Len(returned) = 1
    /\ pc = "idle"
    /\ \A i \in 1..NChecks : results[i].st = "done"
    /\ results[3].got # <<>>
    /\ errors = <<InvalidEmailError, NoMxError>>

====
